---- MODULE Spec2Model ----
(***************************************************************************)
(* Model of the pose conversion functions of ivy_mech                      *)
(*   src/ivy_mech/pose/quaternion_pose.py                                   *)
(*   src/ivy_mech/pose/axis_angle_pose.py                                   *)
(*                                                                         *)
(* Arrays are modelled by their shape and contents: a vector-pose array    *)
(* [batch, D] is a sequence of rows, a matrix-pose array [batch, R, C] a    *)
(* sequence of matrices (sequences of rows).  Indexing and slicing follow   *)
(* Python: 0-based, half-open, negative indices count from the end, slice   *)
(* bounds are clipped to the length.                                        *)
(*                                                                         *)
(* Numbers are exact integers.  Angles are counted in half turns (multiples *)
(* of pi), so that every half angle is a multiple of pi/2 and sin, cos and  *)
(* acos are exact on the lattice: unit quaternions are the eight Lipschitz  *)
(* units +-1, +-i, +-j, +-k, which contain non-commuting pairs.             *)
(*                                                                         *)
(* The orientation functions the pose functions call (ivy_mech.            *)
(* orientation.*, ivy_mech.pose.matrix_pose) are modelled from sections     *)
(* 4.1, 4.2 and 7 of the specification.                                     *)
(***************************************************************************)
EXTENDS Integers, Sequences, FiniteSets, TLC

VARIABLES op, arg, vel, delta_t, convention, out, defaultAxis,
          pose0, stepVel, cur, elapsed, nsteps

vars == <<op, arg, vel, delta_t, convention, out, defaultAxis,
          pose0, stepVel, cur, elapsed, nsteps>>

(***************************************************************************)
(* Bounds                                                                  *)
(***************************************************************************)
MaxBatch == 2
MaxExtra == 1
MaxDt == 2
MaxSteps == 3

(***************************************************************************)
(* Python indexing and slicing on one axis                                 *)
(***************************************************************************)
Min(a, b) == IF a < b THEN a ELSE b
Max(a, b) == IF a > b THEN a ELSE b

\* a slice bound: negative counts from the end, then clipped to 0..n
PyBound(n, i) == Max(0, Min(n, IF i < 0 THEN i + n ELSE i))

\* s[lo:hi]
Slice(s, lo, hi) == SubSeq(s, PyBound(Len(s), lo) + 1, PyBound(Len(s), hi))

\* s[lo:]
SliceFrom(s, lo) == SubSeq(s, PyBound(Len(s), lo) + 1, Len(s))

\* s[:hi]
SliceTo(s, hi) == SubSeq(s, 1, PyBound(Len(s), hi))

\* s[i]
Item(s, i) == s[(IF i < 0 THEN i + Len(s) ELSE i) + 1]

(***************************************************************************)
(* Array operations of the backend, on [batch, D] and [batch, R, C]        *)
(***************************************************************************)
\* a[..., lo:hi] on [batch, D]
EllSlice(a, lo, hi) == [b \in DOMAIN a |-> Slice(a[b], lo, hi)]

\* a[..., lo:] on [batch, D]
EllSliceFrom(a, lo) == [b \in DOMAIN a |-> SliceFrom(a[b], lo)]

\* a[..., :hi] on [batch, D]
EllSliceTo(a, hi) == [b \in DOMAIN a |-> SliceTo(a[b], hi)]

\* m[..., i] on [batch, R, C]: entry i of every row, giving [batch, R]
MatEllItem(m, i) == [b \in DOMAIN m |-> [r \in DOMAIN m[b] |-> Item(m[b][r], i)]]

\* m[..., lo:hi] on [batch, R, C]: the slice of every row, giving [batch, R, hi-lo]
MatEllSlice(m, lo, hi) ==
    [b \in DOMAIN m |-> [r \in DOMAIN m[b] |-> Slice(m[b][r], lo, hi)]]

\* m[..., rlo:rhi, i] on [batch, R, C], giving [batch, rhi-rlo]
MatRowsItem(m, rlo, rhi, i) ==
    [b \in DOMAIN m |->
        LET rows == Slice(m[b], rlo, rhi)
        IN  [r \in DOMAIN rows |-> Item(rows[r], i)]]

\* m[..., rlo:rhi, lo:hi] on [batch, R, C]
MatRowsSlice(m, rlo, rhi, lo, hi) ==
    [b \in DOMAIN m |->
        LET rows == Slice(m[b], rlo, rhi)
        IN  [r \in DOMAIN rows |-> Slice(rows[r], lo, hi)]]

\* f.concatenate((a, b), -1) on [batch, D1] and [batch, D2]
concatenate(a, b) == [i \in DOMAIN a |-> a[i] \o b[i]]

\* a + b, elementwise on equal shapes
ArrAdd(a, b) == [i \in DOMAIN a |-> [k \in DOMAIN a[i] |-> a[i][k] + b[i][k]]]

\* a * s, array by scalar
ArrScale(a, s) == [i \in DOMAIN a |-> [k \in DOMAIN a[i] |-> a[i][k] * s]]

\* a * b where b is [batch, 1]: broadcast over the last axis
ArrMulBroadcast(a, b) == [i \in DOMAIN a |-> [k \in DOMAIN a[i] |-> a[i][k] * b[i][1]]]

\* a.shape[:-1] for a [batch, D] array
BatchShapeOf(a) == SliceTo(<<Len(a), IF Len(a) > 0 THEN Len(a[1]) ELSE 0>>, -1)

(***************************************************************************)
(* Exact trigonometry on the lattice (angles in half turns)                *)
(***************************************************************************)
\* sin(n * pi / 2)
SinHalf(n) == CASE n % 4 = 0 -> 0 [] n % 4 = 1 -> 1 [] n % 4 = 2 -> 0 [] OTHER -> -1

\* cos(n * pi / 2)
CosHalf(n) == CASE n % 4 = 0 -> 1 [] n % 4 = 1 -> 0 [] n % 4 = 2 -> -1 [] OTHER -> 0

\* clamp(x, -1, 1)
Clamp(x) == Max(-1, Min(1, x))

\* 2 * acos(x) / pi for x in {-1, 0, 1}
TwiceAcos(x) == CASE x = 1 -> 0 [] x = 0 -> 1 [] OTHER -> 2

(***************************************************************************)
(* Orientation conversions (specification 4.1), one batch element          *)
(***************************************************************************)
\* Hamilton product a x b of quaternions (q_i, q_j, q_k, q_r)
HamiltonRow(a, b) ==
    << a[4]*b[1] + a[1]*b[4] + a[2]*b[3] - a[3]*b[2],
       a[4]*b[2] - a[1]*b[3] + a[2]*b[4] + a[3]*b[1],
       a[4]*b[3] + a[1]*b[2] - a[2]*b[1] + a[3]*b[4],
       a[4]*b[4] - a[1]*b[1] - a[2]*b[2] - a[3]*b[3] >>

\* angle = 2 acos(clamp(q_r)); axis = vector part / sin(angle/2), or the
\* default axis when the denominator vanishes
QuatToAxisAngleRow(q) ==
    LET theta == TwiceAcos(Clamp(q[4]))
        s     == SinHalf(theta)
        axis  == IF s = 0 THEN defaultAxis
                 ELSE << q[1] \div s, q[2] \div s, q[3] \div s >>
    IN  axis \o << theta >>

\* q = (axis * sin(angle/2), cos(angle/2))
AxisAngleToQuatRow(aa) ==
    << aa[1] * SinHalf(aa[4]), aa[2] * SinHalf(aa[4]), aa[3] * SinHalf(aa[4]),
       CosHalf(aa[4]) >>

\* the half-angle quaternion of a rotation by phi about the named axis
AxisQuat(letter, phi) ==
    CASE letter = "x" -> << SinHalf(phi), 0, 0, CosHalf(phi) >>
      [] letter = "y" -> << 0, SinHalf(phi), 0, CosHalf(phi) >>
      [] OTHER        -> << 0, 0, SinHalf(phi), CosHalf(phi) >>

\* per-axis quaternions composed in convention order
EulerToQuatRow(e, conv) ==
    HamiltonRow(HamiltonRow(AxisQuat(conv[1], e[1]), AxisQuat(conv[2], e[2])),
                AxisQuat(conv[3], e[3]))

\* the rotation matrix of a rotation by phi about the named axis
AxisMat(letter, phi) ==
    LET c == CosHalf(2 * phi)
        s == SinHalf(2 * phi)
    IN  CASE letter = "x" -> << <<1, 0, 0>>, <<0, c, -s>>, <<0, s, c>> >>
          [] letter = "y" -> << <<c, 0, s>>, <<0, 1, 0>>, <<-s, 0, c>> >>
          [] OTHER        -> << <<c, -s, 0>>, <<s, c, 0>>, <<0, 0, 1>> >>

MatMul(A, B) ==
    [r \in 1..3 |-> [c \in 1..3 |-> A[r][1]*B[1][c] + A[r][2]*B[2][c] + A[r][3]*B[3][c]]]

EulerToRotMatRow(e, conv) ==
    MatMul(MatMul(AxisMat(conv[1], e[1]), AxisMat(conv[2], e[2])), AxisMat(conv[3], e[3]))

\* the integer square root (exact on the lattice)
ISqrt(n) == IF n <= 0 THEN 0 ELSE CHOOSE r \in 0..n : r * r <= n /\ (r + 1) * (r + 1) > n

\* rotation matrix to quaternion by the trace method
RotMatToQuatRow(R) ==
    LET tr == R[1][1] + R[2][2] + R[3][3]
    IN  IF tr > 0 THEN
            LET S == 2 * ISqrt(tr + 1)
            IN  << (R[3][2] - R[2][3]) \div S, (R[1][3] - R[3][1]) \div S,
                   (R[2][1] - R[1][2]) \div S, S \div 4 >>
        ELSE IF R[1][1] > R[2][2] /\ R[1][1] > R[3][3] THEN
            LET S == 2 * ISqrt(1 + R[1][1] - R[2][2] - R[3][3])
            IN  << S \div 4, (R[1][2] + R[2][1]) \div S,
                   (R[1][3] + R[3][1]) \div S, (R[3][2] - R[2][3]) \div S >>
        ELSE IF R[2][2] > R[3][3] THEN
            LET S == 2 * ISqrt(1 + R[2][2] - R[1][1] - R[3][3])
            IN  << (R[1][2] + R[2][1]) \div S, S \div 4,
                   (R[2][3] + R[3][2]) \div S, (R[1][3] - R[3][1]) \div S >>
        ELSE
            LET S == 2 * ISqrt(1 + R[3][3] - R[1][1] - R[2][2])
            IN  << (R[1][3] + R[3][1]) \div S, (R[2][3] + R[3][2]) \div S,
                   S \div 4, (R[2][1] - R[1][2]) \div S >>

(***************************************************************************)
(* Orientation conversions on batches: every batch element independently   *)
(***************************************************************************)
\* the trailing dimension of every element of a [batch, D] array is n
HasArity(a, n) == \A b \in DOMAIN a : Len(a[b]) = n

\* the trailing dimensions of every element of a [batch, R, C] array are r x c
HasMatShape(m, r, c) ==
    \A b \in DOMAIN m : Len(m[b]) = r /\ \A k \in DOMAIN m[b] : Len(m[b][k]) = c

hamilton_product(a, b) == [i \in DOMAIN a |-> HamiltonRow(a[i], b[i])]

quaternion_to_axis_angle(q) == [i \in DOMAIN q |-> QuatToAxisAngleRow(q[i])]

axis_angle_to_quaternion(aa) == [i \in DOMAIN aa |-> AxisAngleToQuatRow(aa[i])]

\* decompose to axis and angle, multiply the angle by the scalar, recompose
scale_quaternion_rotation_angle(q, scale) ==
    LET vector_and_angle == quaternion_to_axis_angle(q)
        scaled_angle     == ArrScale(EllSliceFrom(vector_and_angle, -1), scale)
    IN  axis_angle_to_quaternion(concatenate(EllSliceTo(vector_and_angle, -1), scaled_angle))

quaternion_to_rotation_vector(q) ==
    LET vector_and_angle == quaternion_to_axis_angle(q)
    IN  ArrMulBroadcast(EllSliceTo(vector_and_angle, -1), EllSliceFrom(vector_and_angle, -1))

rot_mat_to_quaternion(R) == [i \in DOMAIN R |-> RotMatToQuatRow(R[i])]

euler_to_axis_angle(euler, conv) ==
    quaternion_to_axis_angle([i \in DOMAIN euler |-> EulerToQuatRow(euler[i], conv)])

\* [R | t] with R from the Euler block and t the leading three components;
\* the output has the leading shape batch_shape
euler_pose_to_mat_pose(euler_pose, conv, batch_shape) ==
    [b \in 1..batch_shape[1] |->
        LET R == EulerToRotMatRow(SliceFrom(euler_pose[b], 3), conv)
            t == SliceTo(euler_pose[b], 3)
        IN  [r \in 1..3 |-> R[r] \o << t[r] >>]]

(***************************************************************************)
(* Results of a call                                                       *)
(***************************************************************************)
Return(v) == [err |-> "none", val |-> v]

Raise(e) == [err |-> e, val |-> << >>]


(***************************************************************************)
(* Pose conversions to quaternion pose (quaternion_pose.py)                *)
(***************************************************************************)
axis_angle_pose_to_quaternion_pose(axis_angle_pose) ==
    LET translation == EllSliceTo(axis_angle_pose, 3)
        aa          == EllSliceFrom(axis_angle_pose, 3)
    IN  IF ~HasArity(aa, 4) THEN Raise("ShapeMismatch")
        ELSE Return(concatenate(translation, axis_angle_to_quaternion(aa)))

mat_pose_to_quaternion_pose(matrix) ==
    LET R == MatRowsSlice(matrix, 0, 3, 0, 3)
    IN  IF ~HasMatShape(R, 3, 3) THEN Raise("ShapeMismatch")
        ELSE Return(concatenate(MatRowsItem(matrix, 0, 3, -1), rot_mat_to_quaternion(R)))

euler_pose_to_quaternion_pose(euler_pose, conv) ==
    LET batch_shape == BatchShapeOf(euler_pose)
    IN  IF ~HasArity(euler_pose, 6) THEN Raise("ShapeMismatch")
        ELSE mat_pose_to_quaternion_pose(
                 euler_pose_to_mat_pose(euler_pose, conv, batch_shape))

\* a variant that adds the velocity without the time step
increment_without_delta_t(quat_pose, quat_vel, dt) ==
    LET current_quaternion == EllSlice(quat_pose, 3, 7)
        quaternion_vel     == EllSlice(quat_vel, 3, 7)
    IN  IF ~HasArity(quaternion_vel, 4) \/ ~HasArity(current_quaternion, 4)
        THEN Raise("ShapeMismatch")
        ELSE LET quaternion_transform ==
                     scale_quaternion_rotation_angle(quaternion_vel, dt)
                 new_quaternion ==
                     hamilton_product(current_quaternion, quaternion_transform)
             IN  Return(concatenate(
                     ArrAdd(EllSlice(quat_pose, 0, 3),
                            EllSlice(quat_vel, 0, 3)),
                     new_quaternion))

\* a variant that multiplies the increment from the left
increment_left_multiplied(quat_pose, quat_vel, dt) ==
    LET current_quaternion == EllSlice(quat_pose, 3, 7)
        quaternion_vel     == EllSlice(quat_vel, 3, 7)
    IN  IF ~HasArity(quaternion_vel, 4) \/ ~HasArity(current_quaternion, 4)
        THEN Raise("ShapeMismatch")
        ELSE LET quaternion_transform ==
                     scale_quaternion_rotation_angle(quaternion_vel, dt)
                 new_quaternion ==
                     hamilton_product(quaternion_transform, current_quaternion)
             IN  Return(concatenate(
                     ArrAdd(EllSlice(quat_pose, 0, 3),
                            ArrScale(EllSlice(quat_vel, 0, 3), dt)),
                     new_quaternion))

\* a variant that slices the velocity quaternion at the wrong offset
increment_velocity_offset(quat_pose, quat_vel, dt) ==
    LET current_quaternion == EllSlice(quat_pose, 3, 7)
        quaternion_vel     == EllSlice(quat_vel, 0, 4)
    IN  IF ~HasArity(quaternion_vel, 4) \/ ~HasArity(current_quaternion, 4)
        THEN Raise("ShapeMismatch")
        ELSE LET quaternion_transform ==
                     scale_quaternion_rotation_angle(quaternion_vel, dt)
                 new_quaternion ==
                     hamilton_product(current_quaternion, quaternion_transform)
             IN  Return(concatenate(
                     ArrAdd(EllSlice(quat_pose, 0, 3),
                            ArrScale(EllSlice(quat_vel, 0, 3), dt)),
                     new_quaternion))

\* a variant that multiplies by the unscaled velocity quaternion
increment_unscaled(quat_pose, quat_vel, dt) ==
    LET current_quaternion == EllSlice(quat_pose, 3, 7)
        quaternion_vel     == EllSlice(quat_vel, 3, 7)
    IN  IF ~HasArity(quaternion_vel, 4) \/ ~HasArity(current_quaternion, 4)
        THEN Raise("ShapeMismatch")
        ELSE LET quaternion_transform ==
                     scale_quaternion_rotation_angle(quaternion_vel, dt)
                 new_quaternion ==
                     hamilton_product(current_quaternion, quaternion_vel)
             IN  Return(concatenate(
                     ArrAdd(EllSlice(quat_pose, 0, 3),
                            ArrScale(EllSlice(quat_vel, 0, 3), dt)),
                     new_quaternion))

\* a variant that integrates the wrong three velocity components
increment_angular_as_linear(quat_pose, quat_vel, dt) ==
    LET current_quaternion == EllSlice(quat_pose, 3, 7)
        quaternion_vel     == EllSlice(quat_vel, 3, 7)
    IN  IF ~HasArity(quaternion_vel, 4) \/ ~HasArity(current_quaternion, 4)
        THEN Raise("ShapeMismatch")
        ELSE LET quaternion_transform ==
                     scale_quaternion_rotation_angle(quaternion_vel, dt)
                 new_quaternion ==
                     hamilton_product(current_quaternion, quaternion_transform)
             IN  Return(concatenate(
                     ArrAdd(EllSlice(quat_pose, 0, 3),
                            ArrScale(EllSlice(quat_vel, 3, 6), dt)),
                     new_quaternion))

\* a variant that reads the translation of batch element 0 for every element
increment_first_row(quat_pose, quat_vel, dt) ==
    LET current_quaternion == EllSlice(quat_pose, 3, 7)
        quaternion_vel     == EllSlice(quat_vel, 3, 7)
    IN  IF ~HasArity(quaternion_vel, 4) \/ ~HasArity(current_quaternion, 4)
        THEN Raise("ShapeMismatch")
        ELSE LET quaternion_transform ==
                     scale_quaternion_rotation_angle(quaternion_vel, dt)
                 new_quaternion ==
                     hamilton_product(current_quaternion, quaternion_transform)
             IN  Return(concatenate(
                     ArrAdd([b \in DOMAIN quat_pose |-> Slice(quat_pose[1], 0, 3)],
                            ArrScale(EllSlice(quat_vel, 0, 3), dt)),
                     new_quaternion))

increment_quaternion_pose_with_velocity(quat_pose, quat_vel, dt) ==
    LET current_quaternion == EllSlice(quat_pose, 3, 7)
        quaternion_vel     == EllSlice(quat_vel, 3, 7)
    IN  IF ~HasArity(quaternion_vel, 4) \/ ~HasArity(current_quaternion, 4)
        THEN Raise("ShapeMismatch")
        ELSE LET quaternion_transform ==
                     scale_quaternion_rotation_angle(quaternion_vel, dt)
                 new_quaternion ==
                     hamilton_product(current_quaternion, quaternion_transform)
             IN  Return(concatenate(
                     ArrAdd(EllSlice(quat_pose, 0, 3),
                            ArrScale(EllSlice(quat_vel, 0, 3), dt)),
                     new_quaternion))

(***************************************************************************)
(* Pose conversions to axis-angle and rotation-vector pose                 *)
(* (axis_angle_pose.py)                                                    *)
(***************************************************************************)
\* a variant that takes the translation one component late
euler_pose_to_axis_angle_pose_shifted(euler_pose, conv) ==
    LET euler == EllSliceFrom(euler_pose, 3)
    IN  IF ~HasArity(euler, 3) THEN Raise("ShapeMismatch")
        ELSE Return(concatenate(EllSlice(euler_pose, 1, 4),
                                euler_to_axis_angle(euler, conv)))

euler_pose_to_axis_angle_pose(euler_pose, conv) ==
    LET euler == EllSliceFrom(euler_pose, 3)
    IN  IF ~HasArity(euler, 3) THEN Raise("ShapeMismatch")
        ELSE Return(concatenate(EllSliceTo(euler_pose, 3),
                                euler_to_axis_angle(euler, conv)))

\* a variant that takes the first column as translation
mat_pose_to_rot_vec_pose_first_column(matrix) ==
    LET translation == MatEllItem(matrix, 0)
        R           == MatEllSlice(matrix, 0, 3)
    IN  IF ~HasMatShape(R, 3, 3) THEN Raise("ShapeMismatch")
        ELSE LET quaternion == rot_mat_to_quaternion(R)
                 rot_vector == quaternion_to_rotation_vector(quaternion)
             IN  Return(concatenate(translation, rot_vector))

mat_pose_to_rot_vec_pose(matrix) ==
    LET translation == MatEllItem(matrix, -1)
        R           == MatEllSlice(matrix, 0, 3)
    IN  IF ~HasMatShape(R, 3, 3) THEN Raise("ShapeMismatch")
        ELSE LET quaternion == rot_mat_to_quaternion(R)
                 rot_vector == quaternion_to_rotation_vector(quaternion)
             IN  Return(concatenate(translation, rot_vector))

\* a variant that returns the axis without multiplying by the angle
quaternion_pose_to_rot_vec_pose_axis_only(quat_pose) ==
    LET q == EllSliceFrom(quat_pose, 3)
    IN  IF ~HasArity(q, 4) THEN Raise("ShapeMismatch")
        ELSE LET vector_and_angle == quaternion_to_axis_angle(q)
                 rot_vec == EllSliceTo(vector_and_angle, -1)
             IN  Return(concatenate(EllSlice(quat_pose, 0, 3), rot_vec))

quaternion_pose_to_rot_vec_pose(quat_pose) ==
    LET q == EllSliceFrom(quat_pose, 3)
    IN  IF ~HasArity(q, 4) THEN Raise("ShapeMismatch")
        ELSE LET vector_and_angle == quaternion_to_axis_angle(q)
                 rot_vec == ArrMulBroadcast(EllSliceTo(vector_and_angle, -1),
                                            EllSliceFrom(vector_and_angle, -1))
             IN  Return(concatenate(EllSlice(quat_pose, 0, 3), rot_vec))

(***************************************************************************)
(* Inputs                                                                  *)
(***************************************************************************)
Translations == { <<0, 0, 0>>, <<1, -2, 3>> }

Identity == <<0, 0, 0, 1>>

UnitQuats ==
    { <<0, 0, 0, 1>>, <<0, 0, 0, -1>>, <<1, 0, 0, 0>>, <<-1, 0, 0, 0>>,
      <<0, 1, 0, 0>>, <<0, -1, 0, 0>>, <<0, 0, 1, 0>>, <<0, 0, -1, 0>> }

\* accepted by the functions, which do not validate the norm
NonUnitQuats == { <<1, 1, 0, 0>>, <<0, 0, 0, 2>>, <<0, 0, 0, 0>>, <<1, 0, 0, 1>> }

Quats == UnitQuats \cup NonUnitQuats

UnitAxes == { <<1, 0, 0>>, <<0, 1, 0>>, <<0, 0, 1>>, <<0, 0, -1>> }

EulerAngles == { <<a, b, c>> : a \in 0..1, b \in 0..1, c \in 0..1 }

Conventions == { <<"z", "y", "x">>, <<"x", "y", "z">>, <<"y", "z", "x">> }

\* the rotations of the lattice: half turns about the coordinate axes
RotMats ==
    { << <<1, 0, 0>>, <<0, 1, 0>>, <<0, 0, 1>> >>,
      << <<1, 0, 0>>, <<0, -1, 0>>, <<0, 0, -1>> >>,
      << <<-1, 0, 0>>, <<0, 1, 0>>, <<0, 0, -1>> >>,
      << <<-1, 0, 0>>, <<0, -1, 0>>, <<0, 0, 1>> >> }

QuatPoses == { t \o q : t \in Translations, q \in Quats }

AxisAnglePoses == { t \o e \o <<th>> : t \in Translations, e \in UnitAxes, th \in 0..3 }

EulerPoses == { t \o e : t \in Translations, e \in EulerAngles }

MatPoses == { [r \in 1..3 |-> R[r] \o << t[r] >>] : R \in RotMats, t \in Translations }

\* the rows of a batch of more than one element: pairwise different in
\* translation and in orientation
SampleQuatPoses ==
    { <<1, -2, 3, 1, 0, 0, 0>>, <<0, 4, -1, 0, 1, 0, 0>>, <<5, 5, 5, 0, 0, 0, 1>> }

SampleAxisAnglePoses ==
    { <<1, -2, 3, 1, 0, 0, 1>>, <<0, 4, -1, 0, 0, 1, 2>>, <<5, 5, 5, 0, 1, 0, 0>> }

SampleEulerPoses ==
    { <<1, -2, 3, 1, 0, 0>>, <<0, 4, -1, 0, 1, 1>>, <<5, 5, 5, 0, 0, 0>> }

SampleMatPoses ==
    { << <<1, 0, 0, 1>>, <<0, -1, 0, -2>>, <<0, 0, -1, 3>> >>,
      << <<-1, 0, 0, 0>>, <<0, 1, 0, 4>>, <<0, 0, -1, -1>> >>,
      << <<1, 0, 0, 5>>, <<0, 1, 0, 5>>, <<0, 0, 1, 5>> >> }

\* a vector of n components from p: cut, or padded with a foreign value
Resize(p, n) ==
    IF n <= Len(p) THEN SubSeq(p, 1, n)
    ELSE p \o [k \in 1..(n - Len(p)) |-> 7 + k]

\* a matrix of r rows and c columns from a 3 x 4 matrix pose: the extra rows
\* continue with the homogeneous row, the extra columns with a foreign value
ResizeMat(M, r, c) ==
    [i \in 1..r |-> Resize(IF i <= 3 THEN M[i] ELSE <<0, 0, 0, 1>>, c)]

\* the batches of n rows of length len
Batches(full, sample, n, len) ==
    { [i \in 1..n |-> Resize(f[i], len)] : f \in [1..n -> IF n = 1 THEN full ELSE sample] }

MatBatches(n, r, c) ==
    { [i \in 1..n |-> ResizeMat(f[i], r, c)] :
          f \in [1..n -> IF n = 1 THEN MatPoses ELSE SampleMatPoses] }

\* trailing dimensions offered for a representation of arity d
Lengths(d) == (d - 1)..(d + MaxExtra)

NoCall == [err |-> "none", val |-> << >>]

(***************************************************************************)
(* The callers: one action per pose function                               *)
(***************************************************************************)
stepVars == <<pose0, stepVel, cur, elapsed, nsteps>>

\* the functions are pure and keep no state: a behaviour is one call
Call(name, a, v, dt, conv, result) ==
    /\ op' = name
    /\ arg' = a
    /\ vel' = v
    /\ delta_t' = dt
    /\ convention' = conv
    /\ out' = result
    /\ UNCHANGED <<defaultAxis, stepVars>>

CallAxisAnglePoseToQuaternionPose ==
    /\ op = "none"
    /\ \E n \in 1..MaxBatch, len \in Lengths(7) :
         \E a \in Batches(AxisAnglePoses, SampleAxisAnglePoses, n, len) :
           Call("axis_angle_pose_to_quaternion_pose", a, << >>, 0, convention,
                axis_angle_pose_to_quaternion_pose(a))

CallMatPoseToQuaternionPose ==
    /\ op = "none"
    /\ \E n \in 1..MaxBatch, r \in 3..(3 + MaxExtra), c \in 4..(4 + MaxExtra) :
         \E m \in MatBatches(n, r, c) :
           Call("mat_pose_to_quaternion_pose", m, << >>, 0, convention,
                mat_pose_to_quaternion_pose(m))

CallEulerPoseToQuaternionPose ==
    /\ op = "none"
    /\ \E n \in 1..MaxBatch, len \in Lengths(6), conv \in Conventions :
         \E a \in Batches(EulerPoses, SampleEulerPoses, n, len) :
           Call("euler_pose_to_quaternion_pose", a, << >>, 0, conv,
                euler_pose_to_quaternion_pose(a, conv))

CallIncrementQuaternionPoseWithVelocity ==
    /\ op = "none"
    /\ \E n \in 1..MaxBatch, len \in Lengths(7), vlen \in Lengths(7), dt \in -1..MaxDt :
         \E a \in Batches(QuatPoses, SampleQuatPoses, n, len),
            v \in Batches(QuatPoses, SampleQuatPoses, n, vlen) :
           Call("increment_quaternion_pose_with_velocity", a, v, dt, convention,
                increment_quaternion_pose_with_velocity(a, v, dt))

CallEulerPoseToAxisAnglePose ==
    /\ op = "none"
    /\ \E n \in 1..MaxBatch, len \in Lengths(6), conv \in Conventions :
         \E a \in Batches(EulerPoses, SampleEulerPoses, n, len) :
           Call("euler_pose_to_axis_angle_pose", a, << >>, 0, conv,
                euler_pose_to_axis_angle_pose(a, conv))

CallMatPoseToRotVecPose ==
    /\ op = "none"
    /\ \E n \in 1..MaxBatch, r \in 3..(3 + MaxExtra), c \in 4..(4 + MaxExtra) :
         \E m \in MatBatches(n, r, c) :
           Call("mat_pose_to_rot_vec_pose", m, << >>, 0, convention,
                mat_pose_to_rot_vec_pose(m))

CallQuaternionPoseToRotVecPose ==
    /\ op = "none"
    /\ \E n \in 1..MaxBatch, len \in Lengths(7) :
         \E a \in Batches(QuatPoses, SampleQuatPoses, n, len) :
           Call("quaternion_pose_to_rot_vec_pose", a, << >>, 0, convention,
                quaternion_pose_to_rot_vec_pose(a))

Init ==
    /\ op = "none"
    /\ arg = << >>
    /\ vel = << >>
    /\ delta_t = 0
    /\ convention = <<"z", "y", "x">>
    /\ out = NoCall
    /\ defaultAxis \in { <<1, 0, 0>>, <<0, 0, 1>> }
    /\ pose0 = << >>
    /\ stepVel = << >>
    /\ cur = << >>
    /\ elapsed = 0
    /\ nsteps = 0

Next ==
    \/ CallIncrementQuaternionPoseWithVelocity
    \/ CallAxisAnglePoseToQuaternionPose
    \/ CallMatPoseToQuaternionPose
    \/ CallEulerPoseToQuaternionPose
    \/ CallEulerPoseToAxisAnglePose
    \/ CallMatPoseToRotVecPose
    \/ CallQuaternionPoseToRotVecPose

Spec == Init /\ [][Next]_vars


(***************************************************************************)
(* A caller stepping one pose with one velocity (the time-stepping is the  *)
(* caller's): every step feeds the previous result back in                 *)
(***************************************************************************)
StepInit ==
    /\ op = "none"
    /\ arg = << >>
    /\ vel = << >>
    /\ delta_t = 0
    /\ convention = <<"z", "y", "x">>
    /\ out = NoCall
    /\ defaultAxis \in { <<1, 0, 0>>, <<0, 0, 1>> }
    /\ pose0 \in Batches(QuatPoses, SampleQuatPoses, 1, 7)
    /\ stepVel \in Batches(QuatPoses, SampleQuatPoses, 1, 7)
    /\ cur = pose0
    /\ elapsed = 0
    /\ nsteps = 0

Step ==
    /\ nsteps < MaxSteps
    /\ \E dt \in 0..MaxDt :
         /\ cur' = increment_quaternion_pose_with_velocity(cur, stepVel, dt).val
         /\ elapsed' = elapsed + dt
         /\ nsteps' = nsteps + 1
    /\ UNCHANGED <<op, arg, vel, delta_t, convention, out, defaultAxis, pose0, stepVel>>

StepNext == Step

StepSpec == StepInit /\ [][StepNext]_vars

(***************************************************************************)
(* Properties                                                              *)
(***************************************************************************)
Ok == out.err = "none"

IsIncrement == op = "increment_quaternion_pose_with_velocity"

\* components 0..2 and 3..6 of a pose
Translation(p) == SubSeq(p, 1, 3)

Quaternion(p) == SubSeq(p, 4, Min(7, Len(p)))

\* the velocity quaternion of batch element i with its angle scaled by delta_t
ScaledVelocity(i) ==
    scale_quaternion_rotation_angle(<< Quaternion(vel[i]) >>, delta_t)[1]

\* C1: the incremented translation is, component by component,
\* quat_pose[0:3] + quat_vel[0:3] * delta_t, whatever the quaternion parts are.
C1_TranslationEuler ==
    (IsIncrement /\ Ok) =>
        \A i \in DOMAIN arg : \A k \in 1..3 :
            out.val[i][k] = arg[i][k] + vel[i][k] * delta_t

C1_Witness ==
    /\ IsIncrement /\ Ok /\ delta_t = 2
    /\ Translation(arg[1]) = <<1, -2, 3>>
    /\ Translation(vel[1]) = <<1, -2, 3>>
    /\ Quaternion(arg[1]) = <<0, 1, 0, 0>>
    /\ Translation(out.val[1]) = <<3, -6, 9>>

\* C2: the incremented orientation is the Hamilton product with the current
\* quaternion as left operand and the scaled velocity quaternion as right
\* operand, and it is not the product in the other order when the two differ.
C2_RightMultiplied ==
    (IsIncrement /\ Ok) =>
        \A i \in DOMAIN arg :
            LET q == Quaternion(arg[i])
                s == ScaledVelocity(i)
            IN  /\ Quaternion(out.val[i]) =
                       << q[4]*s[1] + q[1]*s[4] + q[2]*s[3] - q[3]*s[2],
                          q[4]*s[2] - q[1]*s[3] + q[2]*s[4] + q[3]*s[1],
                          q[4]*s[3] + q[1]*s[2] - q[2]*s[1] + q[3]*s[4],
                          q[4]*s[4] - q[1]*s[1] - q[2]*s[2] - q[3]*s[3] >>
                /\ HamiltonRow(q, s) # HamiltonRow(s, q)
                       => Quaternion(out.val[i]) # HamiltonRow(s, q)

\* i x j = k, while j x i = -k
C2_Witness ==
    /\ IsIncrement /\ Ok /\ delta_t = 1
    /\ Quaternion(arg[1]) = <<1, 0, 0, 0>>
    /\ Quaternion(vel[1]) = <<0, 1, 0, 0>>
    /\ Quaternion(out.val[1]) = <<0, 0, 1, 0>>
    /\ HamiltonRow(Quaternion(vel[1]), Quaternion(arg[1])) = <<0, 0, -1, 0>>

\* C3: from the identity orientation and with delta_t = 1 the incremented
\* orientation is the velocity quaternion, for every unit velocity quaternion.
C3_IdentityStep ==
    (IsIncrement /\ Ok /\ delta_t = 1) =>
        \A i \in DOMAIN arg :
            (Quaternion(arg[i]) = Identity /\ Quaternion(vel[i]) \in UnitQuats)
                => Quaternion(out.val[i]) = Quaternion(vel[i])

C3_Witness ==
    /\ IsIncrement /\ Ok /\ delta_t = 1
    /\ arg = << <<0, 0, 0, 0, 0, 0, 1>> >>
    /\ vel = << <<0, 0, 0, 0, 0, 1, 0>> >>
    /\ out.val = << <<0, 0, 0, 0, 0, 1, 0>> >>

VectorConversions ==
    { "euler_pose_to_axis_angle_pose", "quaternion_pose_to_rot_vec_pose",
      "axis_angle_pose_to_quaternion_pose", "euler_pose_to_quaternion_pose" }

MatrixConversions == { "mat_pose_to_quaternion_pose", "mat_pose_to_rot_vec_pose" }

C4_IncrementMoves ==
    /\ IsIncrement /\ Ok
    /\ Translation(out.val[1]) # Translation(arg[1])

LeftBlock(M) == [r \in 1..3 |-> << M[r][1], M[r][2], M[r][3] >>]

LastColumn(M) == << M[1][4], M[2][4], M[3][4] >>

\* C5: on 3x4 matrix poses both matrix conversions output the last column as
\* translation and convert the left 3x3 block, and their two ways of slicing
\* select the same entries.
C5_MatrixBlocks ==
    (op \in MatrixConversions /\ HasMatShape(arg, 3, 4)) =>
        /\ Ok
        /\ MatEllItem(arg, -1) = MatRowsItem(arg, 0, 3, -1)
        /\ MatEllSlice(arg, 0, 3) = MatRowsSlice(arg, 0, 3, 0, 3)
        /\ \A i \in DOMAIN arg :
             /\ Translation(out.val[i]) = LastColumn(arg[i])
             /\ op = "mat_pose_to_quaternion_pose" =>
                    Quaternion(out.val[i]) = RotMatToQuatRow(LeftBlock(arg[i]))
             /\ op = "mat_pose_to_rot_vec_pose" =>
                    SliceFrom(out.val[i], 3) =
                        quaternion_to_rotation_vector(
                            << RotMatToQuatRow(LeftBlock(arg[i])) >>)[1]

\* a half turn about x with translation (1, -2, 3)
C5_Witness ==
    /\ op = "mat_pose_to_rot_vec_pose" /\ Ok
    /\ arg = << << <<1, 0, 0, 1>>, <<0, -1, 0, -2>>, <<0, 0, -1, 3>> >> >>
    /\ out.val = << <<1, -2, 3, 1, 0, 0>> >>

\* the trailing dimensions of the inputs of the call are those of their
\* representations
ArityMatches ==
    CASE IsIncrement -> HasArity(arg, 7) /\ HasArity(vel, 7)
      [] op \in { "quaternion_pose_to_rot_vec_pose",
                  "axis_angle_pose_to_quaternion_pose" } -> HasArity(arg, 7)
      [] op \in { "euler_pose_to_axis_angle_pose",
                  "euler_pose_to_quaternion_pose" } -> HasArity(arg, 6)
      [] op \in MatrixConversions -> HasMatShape(arg, 3, 4)
      [] OTHER -> TRUE

\* C6: a call whose input has a trailing dimension that does not match its
\* representation surfaces ShapeMismatch and returns no numeric result.
C6_ShapeMismatchSurfaced ==
    (op # "none" /\ ~ArityMatches) => (out.err = "ShapeMismatch" /\ out.val = << >>)

\* the result of the call on batch element i alone
Alone(i) ==
    LET a == << arg[i] >>
    IN  CASE IsIncrement ->
                 increment_quaternion_pose_with_velocity(a, << vel[i] >>, delta_t)
          [] op = "axis_angle_pose_to_quaternion_pose" ->
                 axis_angle_pose_to_quaternion_pose(a)
          [] op = "mat_pose_to_quaternion_pose" -> mat_pose_to_quaternion_pose(a)
          [] op = "euler_pose_to_quaternion_pose" ->
                 euler_pose_to_quaternion_pose(a, convention)
          [] op = "euler_pose_to_axis_angle_pose" ->
                 euler_pose_to_axis_angle_pose(a, convention)
          [] op = "mat_pose_to_rot_vec_pose" -> mat_pose_to_rot_vec_pose(a)
          [] OTHER -> quaternion_pose_to_rot_vec_pose(a)

\* C7: the result on a batch has the batch's leading shape and is, at every
\* batch index, the result of the call on that element alone.
C7_BatchIndependent ==
    (op # "none" /\ Ok) =>
        /\ Len(out.val) = Len(arg)
        /\ \A i \in DOMAIN arg : Alone(i).err = "none" /\ out.val[i] = Alone(i).val[1]

C7_Witness ==
    /\ IsIncrement /\ Ok /\ delta_t = 2
    /\ Len(arg) = 2 /\ arg[1] # arg[2] /\ vel[1] # vel[2]
    /\ Translation(arg[1]) # Translation(arg[2])
    /\ out.val[1] # out.val[2]
    /\ out.val[2] = Alone(2).val[1]

\* C8: quaternion_pose_to_rot_vec_pose raises nothing on the identity
\* quaternion and returns the translation followed by the zero rotation
\* vector, whatever the default axis is.
C8_IdentityToZeroVector ==
    (op = "quaternion_pose_to_rot_vec_pose" /\ HasArity(arg, 7)) =>
        /\ Ok
        /\ \A i \in DOMAIN arg :
             Quaternion(arg[i]) = Identity =>
                 out.val[i] = Translation(arg[i]) \o <<0, 0, 0>>

C8_Witness ==
    /\ op = "quaternion_pose_to_rot_vec_pose" /\ Ok
    /\ defaultAxis = <<0, 0, 1>>
    /\ arg = << <<1, -2, 3, 0, 0, 0, 1>> >>
    /\ out.val = << <<1, -2, 3, 0, 0, 0>> >>

\* C9: with delta_t = 0 the increment returns the translation and the
\* orientation of the input pose, for every pose and every velocity.
C9_ZeroStep ==
    (IsIncrement /\ Ok /\ delta_t = 0) =>
        \A i \in DOMAIN arg :
            /\ Translation(out.val[i]) = Translation(arg[i])
            /\ Quaternion(out.val[i]) = Quaternion(arg[i])

C9_Witness ==
    /\ IsIncrement /\ Ok /\ delta_t = 0
    /\ arg = << <<1, -2, 3, 1, 1, 0, 0>> >>
    /\ vel = << <<1, -2, 3, 0, 1, 0, 0>> >>
    /\ out.val = arg

\* the pose after one call with the whole elapsed time
OneCall == increment_quaternion_pose_with_velocity(pose0, stepVel, elapsed).val

\* C10 as stated: stepping with the same velocity gives the pose of one call
\* with the total elapsed time, for every velocity.
C10_StepsAddUp ==
    nsteps > 0 => cur = OneCall

\* C10 as amended: the translation after the steps is t0 + v * elapsed for
\* every velocity, and the whole pose is that of one call with the total
\* elapsed time when the velocity quaternion has unit norm.
C10_StepsAddUpForUnitVelocity ==
    nsteps > 0 =>
        /\ \A k \in 1..3 : cur[1][k] = pose0[1][k] + stepVel[1][k] * elapsed
        /\ Quaternion(stepVel[1]) \in UnitQuats => cur = OneCall

\* two steps of one second with the velocity of a half turn about y
C10_Witness ==
    /\ nsteps = 2 /\ elapsed = 2
    /\ pose0 = << <<1, -2, 3, 1, 0, 0, 0>> >>
    /\ stepVel = << <<1, -2, 3, 0, 1, 0, 0>> >>
    /\ cur = << <<3, -6, 9, -1, 0, 0, 0>> >>

====
